---- MODULE Spec2Model ----
(***************************************************************************)
(* A model of the parser-combinator engine of src/index.js.                *)
(*                                                                         *)
(* JavaScript strings are sequences of one-character strings, so that      *)
(* slicing, prefix tests and regular-expression matching are computed.     *)
(* A parser is a syntax tree (a record with an "op" field); Apply is the   *)
(* parser's parseStateTransformFn.  The process-wide suggestion registry   *)
(* and a history of every transform-function application are threaded     *)
(* through Apply in an effects record.                                     *)
(***************************************************************************)
EXTENDS Integers, Sequences, FiniteSets

VARIABLES suggestions, parser, out, hist, fails, runs

vars == <<suggestions, parser, out, hist, fails, runs>>

\* ------------------------------------------------------------------ bounds

\* Longest input text of the general specification.
MaxLen == 3
\* Longest input text of the separated-list specification.
SepMaxLen == 5
\* Number of run calls of the registry specification.
MaxRuns == 2

Alphabet == {"a", "A", "1", ","}
SepAlphabet == {"1", "2", "3", ","}

Min(a, b) == IF a < b THEN a ELSE b

SeqsUpTo(S, n) == UNION {[1..k -> S] : k \in 0..n}

\* ------------------------------------------------------- JavaScript values

Null == [t |-> "null"]
Undef == [t |-> "undefined"]
Str(s) == [t |-> "string", s |-> s]
RegExp(re) == [t |-> "regexp", re |-> re]
List(l) == [t |-> "array", l |-> l]

\* the truthiness test of `nextState.lastMatchedToken && ...`
Truthy(v) ==
    CASE v.t = "null" -> FALSE
      [] v.t = "undefined" -> FALSE
      [] v.t = "string" -> v.s # <<>>
      [] OTHER -> TRUE

\* String.prototype.slice(from) and slice(from, to) for 0 <= from
slice(s, from) == SubSeq(s, from + 1, Len(s))
slice2(s, from, to) == SubSeq(s, from + 1, Min(to, Len(s)))

startsWith(t, s) == Len(s) <= Len(t) /\ SubSeq(t, 1, Len(s)) = s

\* String(v), the property-key coercion of suggestions[key]
RECURSIVE ToString(_)
RECURSIVE Join(_, _)
Join(l, i) ==
    IF i > Len(l) THEN <<>>
    ELSE (IF i > 1 THEN <<",">> ELSE <<>>)
         \o (IF l[i].t \in {"null", "undefined"} THEN <<>> ELSE ToString(l[i]))
         \o Join(l, i + 1)
ToString(v) ==
    CASE v.t = "null" -> <<"n", "u", "l", "l">>
      [] v.t = "undefined" -> <<"u", "n", "d", "e", "f", "i", "n", "e", "d">>
      [] v.t = "string" -> v.s
      [] v.t = "array" -> Join(v.l, 1)

\* ------------------------------------------------------ regular expressions

LetterChars == {"a", "A"}
DigitChars == {"0", "1", "2", "3", "4", "5", "6", "7", "8", "9"}
Whitespace == {" "}

toLowerCase(c) == IF c = "A" THEN "a" ELSE c
Fold(s) == [i \in 1..Len(s) |-> toLowerCase(s[i])]

\* /^[a-zA-Z]+/ and /^[0-9]+/
LettersRegex ==
    [form |-> "plus", set |-> LetterChars, lit |-> <<>>, start |-> TRUE,
     end |-> FALSE, icase |-> FALSE,
     source |-> <<"^", "[", "a", "-", "z", "A", "-", "Z", "]", "+">>]
DigitsRegex ==
    [form |-> "plus", set |-> DigitChars, lit |-> <<>>, start |-> TRUE,
     end |-> FALSE, icase |-> FALSE,
     source |-> <<"^", "[", "0", "-", "9", "]", "+">>]

\* new RegExp(source, flags) for a source made of a literal s, optionally
\* wrapped in ^ and $
LiteralRegex(s, start, end, icase) ==
    [form |-> "lit", set |-> {}, lit |-> s, start |-> start, end |-> end,
     icase |-> icase,
     source |-> (IF start THEN <<"^">> ELSE <<>>) \o s
                \o (IF end THEN <<"$">> ELSE <<>>)]

\* RegExp.prototype.toString()
RegexToString(re) ==
    <<"/">> \o (IF re.source = <<>> THEN <<"(", "?", ":", ")">> ELSE re.source)
    \o <<"/">> \o (IF re.icase THEN <<"i">> ELSE <<>>)

\* the offsets at which the literal of re matches in t
LitMatchOffsets(re, t) ==
    {k \in 0..(Len(t) - Len(re.lit)) :
        /\ IF re.icase
           THEN Fold(SubSeq(t, k + 1, k + Len(re.lit))) = Fold(re.lit)
           ELSE SubSeq(t, k + 1, k + Len(re.lit)) = re.lit
        /\ re.start => k = 0
        /\ re.end => k + Len(re.lit) = Len(t)}

PlusMatchLen(re, t) ==
    LET ok == {n \in 1..Len(t) : \A i \in 1..n : t[i] \in re.set}
    IN IF ok = {} THEN 0 ELSE CHOOSE n \in ok : \A m \in ok : m <= n

\* t.match(re) for a non-global re: no match, or the offset (.index) and the
\* text ([0]) of the leftmost match
Match(re, t) ==
    IF re.form = "plus"
    THEN IF PlusMatchLen(re, t) = 0
         THEN [found |-> FALSE, index |-> -1, text |-> <<>>]
         ELSE [found |-> TRUE, index |-> 0, text |-> SubSeq(t, 1, PlusMatchLen(re, t))]
    ELSE IF LitMatchOffsets(re, t) = {}
         THEN [found |-> FALSE, index |-> -1, text |-> <<>>]
         ELSE LET k == CHOOSE k \in LitMatchOffsets(re, t) :
                          \A m \in LitMatchOffsets(re, t) : k <= m
              IN [found |-> TRUE, index |-> k,
                  text |-> SubSeq(t, k + 1, k + Len(re.lit))]

\* ------------------------------------------------------------- parse state

initialState(target) ==
    [target |-> target, index |-> 0, result |-> Null, isError |-> FALSE,
     error |-> Null, errorChain |-> <<>>, lastMatchedToken |-> Null,
     lastMatchedParserIndex |-> 0, lastMatchedTokenIndex |-> 0]

updateParserState(state, index, result) ==
    [state EXCEPT !.index = index, !.result = result]

updateParserResult(state, result) == [state EXCEPT !.result = result]

updateParserError(state, errMsg) ==
    [state EXCEPT !.isError = TRUE, !.error = errMsg,
                  !.errorChain = Append(@, errMsg)]

\* an error message: the template used and the values interpolated into it
Msg(kind, who, pat, at, rest) ==
    [t |-> "message", kind |-> kind, who |-> who, pat |-> pat, at |-> at,
     rest |-> rest]

isSeparation(s) ==
    \/ \A i \in 1..Len(s) : s[i] \in Whitespace
    \/ s = <<",">>

\* ----------------------------------------------------- suggestion registry

\* the registry is a function from keys to non-empty sets of patterns
NoSuggestions == [k \in {} |-> {}]

\* a slip that would empty the set of a key on every call
addSuggestionFreshSet(sugg, key, val) ==
    LET k == ToString(key)
        v == IF val.t = "regexp" THEN RegexToString(val.re) ELSE val.s
    IN [x \in DOMAIN sugg \cup {k} |-> IF x = k THEN {v} ELSE sugg[x]]

\* suggestions[key] is created when absent, then val (a RegExp as its
\* toString()) is added to it
addSuggestion(sugg, key, val) ==
    LET k == ToString(key)
        v == IF val.t = "regexp" THEN RegexToString(val.re) ELSE val.s
    IN [x \in DOMAIN sugg \cup {k} |->
            IF x = k
            THEN (IF k \in DOMAIN sugg THEN sugg[k] ELSE {}) \cup {v}
            ELSE sugg[x]]

\* the effects of a run so far: the registry, the number of failed matchers,
\* and the history of completed transform-function applications
Effects(sugg) == [sugg |-> sugg, fails |-> 0, log |-> <<>>]

\* the suggestion a failing matcher records
Suggest(eff, parserState, val) ==
    [eff EXCEPT
        !.sugg = IF parserState.lastMatchedTokenIndex = parserState.lastMatchedParserIndex
                 THEN addSuggestion(@, parserState.lastMatchedToken, val)
                 ELSE addSuggestion(@, parserState.result, val),
        !.fails = @ + 1]

\* a successful match of text m at parserState.index
Matched(parserState, m) ==
    IF isSeparation(m)
    THEN updateParserState(parserState, parserState.index + Len(m), Str(m))
    ELSE updateParserState(
             [parserState EXCEPT
                 !.lastMatchedToken = Str(m),
                 !.lastMatchedTokenIndex = parserState.index + Len(m),
                 !.lastMatchedParserIndex = parserState.index + Len(m)],
             parserState.index + Len(m), Str(m))

\* ----------------------------------------------------------------- parsers

\* new Parser(parserState => ...): the syntax tree of the transform function
str(s) == [op |-> "str", s |-> s]
regexParserFactory(regex, regexType) ==
    [op |-> "regex", regex |-> regex, regexType |-> regexType]
letters == regexParserFactory(LettersRegex, "letters")
digits == regexParserFactory(DigitsRegex, "digits")
caseStr(s) ==
    regexParserFactory(LiteralRegex(s, FALSE, FALSE, TRUE), "caseStr")
strictCaseStr(s) ==
    regexParserFactory(LiteralRegex(s, TRUE, TRUE, TRUE), "strictCaseStr")
strictStr(s) ==
    regexParserFactory(LiteralRegex(s, TRUE, TRUE, FALSE), "strictCaseStr")
eat(terminal) == [op |-> "eat", terminal |-> terminal]
sequenceOf(parsers) == [op |-> "sequenceOf", parsers |-> parsers]
choice(parsers) == [op |-> "choice", parsers |-> parsers]
many(p) == [op |-> "many", parser |-> p]
manyOne(p) == [op |-> "manyOne", parser |-> p]
sepBy(separatorParser, valueParser) ==
    [op |-> "sepBy", separatorParser |-> separatorParser,
     valueParser |-> valueParser]
sepByOne(separatorParser, valueParser) ==
    [op |-> "sepByOne", separatorParser |-> separatorParser,
     valueParser |-> valueParser]
succeed(value) == [op |-> "succeed", value |-> value]
lazy(thunkParser) == [op |-> "lazy", thunkParser |-> thunkParser]
sequenceSepBy(sep, parsers) ==
    [op |-> "sequenceSepBy", sep |-> sep, parsers |-> parsers]
peek == [op |-> "peek"]
getCurState == [op |-> "getCurState"]
setCurState(state) == [op |-> "setCurState", state |-> state]
map(p, fn) == [op |-> "map", parser |-> p, fn |-> fn]
errorMap(p, fn) == [op |-> "errorMap", parser |-> p, fn |-> fn]
chain(p, fn) == [op |-> "chain", parser |-> p, fn |-> fn]

between(leftParser, rightParser, contentParser) ==
    map(sequenceOf(<<leftParser, contentParser, rightParser>>), "second")
oneOrZero(p) == choice(<<p, succeed(Null)>>)
contextual(parserGenerator) ==
    chain(succeed(Null), [f |-> "contextual", gen |-> parserGenerator])

\* the functions handed to map and errorMap
MapFn(fn, result) ==
    CASE fn = "second" ->
             IF result.t = "array" /\ Len(result.l) >= 2 THEN result.l[2]
             ELSE IF result.t = "string" /\ Len(result.s) >= 2
                  THEN Str(<<result.s[2]>>)
                  ELSE Undef
      [] fn = "wrap" -> List(<<result>>)
ErrorMapFn(fn, error, index) == Msg("errorMap", fn, <<>>, index, <<>>)

\* a generator function: the parsers it yields in order (its second yield may
\* depend on the state it was resumed with) and the value it returns
Generator(yields, alt) == [yields |-> yields, alt |-> alt]
GenYield(gen, k, recv) ==
    IF k = 2 /\ gen.alt # <<>> /\ recv[1].result = Str(<<"a">>)
    THEN gen.alt[1]
    ELSE gen.yields[k]
GenReturn(gen, recv) == List([i \in 1..Len(recv) |-> recv[i].result])

\* runStep of contextual: gen.next(nextState), then succeed(value) when the
\* generator is done and nextParser.chain(runStep) otherwise.  recv are the
\* states the generator was resumed with.
runStep(gen, k, recv) ==
    IF k > Len(gen.yields)
    THEN succeed(GenReturn(gen, recv))
    ELSE chain(GenYield(gen, k, recv),
               [f |-> "runStep", gen |-> gen, k |-> k + 1, recv |-> recv])

\* the function handed to chain, called with nextState
ChainFn(fn, nextState) ==
    CASE fn.f = "const" -> fn.q
      [] fn.f = "contextual" -> runStep(fn.gen, 1, <<>>)
      [] fn.f = "runStep" -> runStep(fn.gen, fn.k, Append(fn.recv, nextState))

\* ---------------------------------------------------- primitive transforms

regexTransform(p, parserState, eff) ==
    LET index == parserState.index
        slicedTarget == slice(parserState.target, index)
        matchedRes == Match(p.regex, slicedTarget)
    IN IF parserState.isError THEN [st |-> parserState, eff |-> eff]
       ELSE IF Len(slicedTarget) = 0 /\ ~matchedRes.found
       THEN [st |-> updateParserError(parserState,
                        Msg("regex: Tried match", p.regexType,
                            RegexToString(p.regex), index, <<>>)),
             eff |-> Suggest(eff, parserState, RegExp(p.regex))]
       ELSE IF matchedRes.found
       THEN [st |-> Matched(parserState, matchedRes.text), eff |-> eff]
       ELSE [st |-> updateParserError(parserState,
                        Msg("regex: Couldn't match", p.regexType,
                            RegexToString(p.regex), index,
                            slice2(slicedTarget, 0, 20))),
             eff |-> Suggest(eff, parserState, RegExp(p.regex))]

strTransform(p, parserState, eff) ==
    LET index == parserState.index
        slicedTarget == slice(parserState.target, index)
    IN IF parserState.isError THEN [st |-> parserState, eff |-> eff]
       ELSE IF Len(slicedTarget) = 0
       THEN [st |-> updateParserError(parserState,
                        Msg("str: unexpected input", "", p.s, -1, <<>>)),
             eff |-> Suggest(eff, parserState, Str(p.s))]
       ELSE IF startsWith(slicedTarget, p.s)
       THEN [st |-> Matched(parserState, p.s), eff |-> eff]
       ELSE [st |-> updateParserError(parserState,
                        Msg("str: but got", "", p.s, -1,
                            slice2(parserState.target, index, index + 10))),
             eff |-> Suggest(eff, parserState, Str(p.s))]

\* a slip that would leave the offset of slicedTarget out of the new index
eatTransformFromSlice(p, parserState) ==
    LET index == parserState.index
        slicedTarget == slice(parserState.target, index)
        matched == Match(p.terminal, slicedTarget)
        termIndex == IF matched.found THEN matched.index ELSE -1
        eatenToken == slice2(slicedTarget, 0, termIndex)
    IN IF parserState.isError THEN parserState
       ELSE IF termIndex # -1
       THEN updateParserState(
                [parserState EXCEPT
                    !.lastMatchedToken = Str(eatenToken),
                    !.lastMatchedTokenIndex = termIndex,
                    !.lastMatchedParserIndex = termIndex],
                termIndex, Str(eatenToken))
       ELSE updateParserState(
                [parserState EXCEPT
                    !.lastMatchedToken = Str(slicedTarget),
                    !.lastMatchedTokenIndex = Len(slicedTarget),
                    !.lastMatchedParserIndex = Len(slicedTarget)],
                Len(slicedTarget), Str(slicedTarget))

eatTransform(p, parserState) ==
    LET index == parserState.index
        slicedTarget == slice(parserState.target, index)
        matched == Match(p.terminal, slicedTarget)
        termIndex == IF matched.found THEN matched.index ELSE -1
        eatenToken == slice2(slicedTarget, 0, termIndex)
    IN IF parserState.isError THEN parserState
       ELSE IF termIndex # -1
       THEN updateParserState(
                [parserState EXCEPT
                    !.lastMatchedToken = Str(eatenToken),
                    !.lastMatchedTokenIndex = index + termIndex,
                    !.lastMatchedParserIndex = index + termIndex],
                index + termIndex, Str(eatenToken))
       ELSE updateParserState(
                [parserState EXCEPT
                    !.lastMatchedToken = Str(slicedTarget),
                    !.lastMatchedTokenIndex = Len(parserState.target),
                    !.lastMatchedParserIndex = Len(parserState.target)],
                Len(parserState.target), Str(slicedTarget))

succeedTransform(p, parserState) ==
    IF parserState.isError THEN parserState
    ELSE updateParserResult(parserState, p.value)

\* parserState.target[parserState.index]
peekTransform(parserState) ==
    updateParserResult(parserState,
        IF parserState.index + 1 \in 1..Len(parserState.target)
        THEN Str(<<parserState.target[parserState.index + 1]>>)
        ELSE Undef)

\* ------------------------------------------------------------- combinators

\* one application of a sub-parser's transform function, as recorded in the
\* history: the role of the sub-parser, the state it got and the one it gave
Kid(role, p, in, o) == [role |-> role, p |-> p, in |-> in, out |-> o]

\* choice: the bookkeeping after a failed alternative (lines 251-257)
ChoiceFurthest(acc, nextState) ==
    IF Truthy(nextState.lastMatchedToken)
       /\ nextState.lastMatchedTokenIndex > acc.preStateMatchedTokenState
    THEN [lastMatchedToken |-> nextState.lastMatchedToken,
          lastMatchedTokenIndex |-> nextState.lastMatchedTokenIndex,
          preStateMatchedTokenState |-> nextState.lastMatchedTokenIndex]
    ELSE acc

\* choice: the state returned when every alternative failed (lines 259-262)
ChoiceFailure(parserState, acc) ==
    updateParserError(
        [parserState EXCEPT !.lastMatchedToken = acc.lastMatchedToken,
                            !.lastMatchedTokenIndex = acc.lastMatchedTokenIndex],
        Msg("choice", "", <<>>, parserState.index, <<>>))

\* sequenceOf and sequenceSepBy: the state returned after the loop
SequenceResult(nextState, results) ==
    IF nextState.isError THEN nextState
    ELSE updateParserResult(nextState, List(results))

\* a slip that would build the returned state from the failing state
ManyResultOfFailure(lastSuccessState, nextState, results) ==
    updateParserResult(nextState, List(results))

\* many: the state returned after the loop (lines 283-291)
ManyResult(lastSuccessState, nextState, results) ==
    updateParserResult(
        [lastSuccessState EXCEPT
            !.errorChain = nextState.errorChain,
            !.lastMatchedToken = nextState.lastMatchedToken,
            !.lastMatchedTokenIndex = nextState.lastMatchedTokenIndex],
        List(results))

\* manyOne: the state returned after the loop (lines 312-331)
ManyOneResult(parserState, nextState, lastState, results) ==
    IF Len(results) = 0
    THEN updateParserError(
             [parserState EXCEPT
                 !.errorChain = lastState.errorChain,
                 !.lastMatchedToken = lastState.lastMatchedToken,
                 !.lastMatchedTokenIndex = lastState.lastMatchedTokenIndex],
             Msg("manyOne", "", <<>>, parserState.index, <<>>))
    ELSE updateParserResult(
             [nextState EXCEPT
                 !.errorChain = lastState.errorChain,
                 !.lastMatchedToken = lastState.lastMatchedToken,
                 !.lastMatchedTokenIndex = lastState.lastMatchedTokenIndex],
             List(results))

\* a slip that would build the returned state from the last value state
SepByResultOfValue(nextState, thingWeWantState, results) ==
    updateParserResult(thingWeWantState, List(results))

\* sepBy: the state returned after the loop (lines 359-367)
SepByResult(nextState, thingWeWantState, results) ==
    updateParserResult(
        [nextState EXCEPT
            !.errorChain = thingWeWantState.errorChain,
            !.lastMatchedToken = thingWeWantState.lastMatchedToken,
            !.lastMatchedTokenIndex = thingWeWantState.lastMatchedTokenIndex],
        List(results))

\* sepByOne: the state returned after the loop (lines 391-410)
SepByOneResult(parserState, nextState, thingWeWantState, results) ==
    IF Len(results) = 0
    THEN updateParserError(
             [parserState EXCEPT
                 !.errorChain = thingWeWantState.errorChain,
                 !.lastMatchedToken = thingWeWantState.lastMatchedToken,
                 !.lastMatchedTokenIndex = thingWeWantState.lastMatchedTokenIndex],
             Msg("sepByOne", "", <<>>, parserState.index, <<>>))
    ELSE SepByResult(nextState, thingWeWantState, results)

\* map, errorMap and chain: what follows the underlying transform
MapResult(fn, nextState) ==
    IF nextState.isError THEN nextState
    ELSE updateParserResult(nextState, MapFn(fn, nextState.result))

ErrorMapResult(fn, nextState) ==
    IF ~nextState.isError THEN nextState
    ELSE updateParserError(nextState,
                           ErrorMapFn(fn, nextState.error, nextState.index))

\* a slip that would call fn after a failure too
ChainAlwaysContinues(nextState) == TRUE

\* chain: whether fn is called and the parser it returns is run (line 61)
ChainContinues(nextState) == ~nextState.isError

RECURSIVE Apply(_, _, _)
RECURSIVE Transform(_, _, _)
RECURSIVE SequenceLoop(_, _, _, _, _, _)
RECURSIVE ChoiceLoop(_, _, _, _, _, _)
RECURSIVE ManyLoop(_, _, _, _, _, _)
RECURSIVE SepByLoop(_, _, _, _, _, _)
RECURSIVE SequenceSepByLoop(_, _, _, _, _, _, _)

\* for (let parser of parsers) of sequenceOf (lines 225-228)
SequenceLoop(parsers, i, nextState, results, eff, kids) ==
    IF i > Len(parsers)
    THEN [nextState |-> nextState, results |-> results, eff |-> eff,
          kids |-> kids]
    ELSE LET r == Apply(parsers[i], nextState, eff)
         IN SequenceLoop(parsers, i + 1, r.st, Append(results, r.st.result),
                         r.eff,
                         Append(kids, Kid("parser", parsers[i], nextState, r.st)))

\* for (let parser of parsers) of choice (lines 244-258)
ChoiceLoop(parsers, i, parserState, acc, eff, kids) ==
    IF i > Len(parsers)
    THEN [st |-> ChoiceFailure(parserState, acc), eff |-> eff, kids |-> kids]
    ELSE LET r == Apply(parsers[i], parserState, eff)
             ks == Append(kids, Kid("parser", parsers[i], parserState, r.st))
         IN IF ~r.st.isError
            THEN [st |-> r.st, eff |-> r.eff, kids |-> ks]
            ELSE ChoiceLoop(parsers, i + 1, parserState,
                            ChoiceFurthest(acc, r.st), r.eff, ks)

\* while (!done) of many and of manyOne (lines 274-282, 303-311): the last
\* successful state, the failing state, and the results
ManyLoop(p, nextState, lastSuccessState, results, eff, kids) ==
    LET r == Apply(p, nextState, eff)
        ks == Append(kids, Kid("parser", p, nextState, r.st))
    IN IF ~r.st.isError
       THEN ManyLoop(p, r.st, r.st, Append(results, r.st.result), r.eff, ks)
       ELSE [nextState |-> r.st, lastSuccessState |-> lastSuccessState,
             results |-> results, eff |-> r.eff, kids |-> ks]

\* while (true) of sepBy and of sepByOne (lines 346-358, 378-390)
SepByLoop(separatorParser, valueParser, nextState, results, eff, kids) ==
    LET v == Apply(valueParser, nextState, eff)
        kv == Append(kids, Kid("value", valueParser, nextState, v.st))
        s == Apply(separatorParser, v.st, v.eff)
        ksep == Append(kv, Kid("separator", separatorParser, v.st, s.st))
    IN IF v.st.isError
       THEN [nextState |-> nextState, thingWeWantState |-> v.st,
             results |-> results, eff |-> v.eff, kids |-> kv]
       ELSE IF s.st.isError
       THEN [nextState |-> v.st, thingWeWantState |-> v.st,
             results |-> Append(results, v.st.result), eff |-> s.eff,
             kids |-> ksep]
       ELSE SepByLoop(separatorParser, valueParser, s.st,
                      Append(results, v.st.result), s.eff, ksep)

\* for (; count < parsers.length - 1; count++) of sequenceSepBy and the
\* application of the last parser (lines 449-455)
SequenceSepByLoop(sep, parsers, count, nextState, results, eff, kids) ==
    LET r == Apply(parsers[count + 1], nextState, eff)
        k1 == Append(kids, Kid("parser", parsers[count + 1], nextState, r.st))
        s == Apply(sep, r.st, r.eff)
        k2 == Append(k1, Kid("separator", sep, r.st, s.st))
    IN IF count < Len(parsers) - 1
       THEN SequenceSepByLoop(sep, parsers, count + 1, s.st,
                              Append(results, r.st.result), s.eff, k2)
       ELSE [nextState |-> r.st, results |-> Append(results, r.st.result),
             eff |-> r.eff, kids |-> k1]

\* parser.parseStateTransformFn(parserState): the state returned, the effects,
\* and the applications of the sub-parsers
Transform(p, parserState, eff) ==
    CASE p.op = "regex" ->
             [st |-> regexTransform(p, parserState, eff).st,
              eff |-> regexTransform(p, parserState, eff).eff, kids |-> <<>>]
      [] p.op = "str" ->
             [st |-> strTransform(p, parserState, eff).st,
              eff |-> strTransform(p, parserState, eff).eff, kids |-> <<>>]
      [] p.op = "eat" ->
             [st |-> eatTransform(p, parserState), eff |-> eff, kids |-> <<>>]
      [] p.op = "succeed" ->
             [st |-> succeedTransform(p, parserState), eff |-> eff,
              kids |-> <<>>]
      [] p.op = "peek" ->
             [st |-> peekTransform(parserState), eff |-> eff, kids |-> <<>>]
      [] p.op = "getCurState" ->
             [st |-> parserState, eff |-> eff, kids |-> <<>>]
      [] p.op = "setCurState" ->
             [st |-> p.state, eff |-> eff, kids |-> <<>>]
      [] p.op = "lazy" ->
             LET r == Apply(p.thunkParser, parserState, eff)
             IN [st |-> r.st, eff |-> r.eff,
                 kids |-> <<Kid("parser", p.thunkParser, parserState, r.st)>>]
      [] p.op = "sequenceOf" ->
             IF parserState.isError
             THEN [st |-> parserState, eff |-> eff, kids |-> <<>>]
             ELSE LET l == SequenceLoop(p.parsers, 1, parserState, <<>>, eff, <<>>)
                  IN [st |-> SequenceResult(l.nextState, l.results),
                      eff |-> l.eff, kids |-> l.kids]
      [] p.op = "sequenceSepBy" ->
             IF parserState.isError
             THEN [st |-> parserState, eff |-> eff, kids |-> <<>>]
             ELSE LET l == SequenceSepByLoop(p.sep, p.parsers, 0, parserState,
                                             <<>>, eff, <<>>)
                  IN [st |-> SequenceResult(l.nextState, l.results),
                      eff |-> l.eff, kids |-> l.kids]
      [] p.op = "choice" ->
             IF parserState.isError
             THEN [st |-> parserState, eff |-> eff, kids |-> <<>>]
             ELSE ChoiceLoop(p.parsers, 1, parserState,
                             [lastMatchedToken |-> Null,
                              lastMatchedTokenIndex |-> 0,
                              preStateMatchedTokenState |-> 0],
                             eff, <<>>)
      [] p.op = "many" ->
             IF parserState.isError
             THEN [st |-> parserState, eff |-> eff, kids |-> <<>>]
             ELSE LET l == ManyLoop(p.parser, parserState, parserState, <<>>,
                                    eff, <<>>)
                  IN [st |-> ManyResult(l.lastSuccessState, l.nextState, l.results),
                      eff |-> l.eff, kids |-> l.kids]
      [] p.op = "manyOne" ->
             \* manyOne calls the last successful state nextState and the
             \* failing one lastState
             IF parserState.isError
             THEN [st |-> parserState, eff |-> eff, kids |-> <<>>]
             ELSE LET l == ManyLoop(p.parser, parserState, parserState, <<>>,
                                    eff, <<>>)
                  IN [st |-> ManyOneResult(parserState, l.lastSuccessState,
                                           l.nextState, l.results),
                      eff |-> l.eff, kids |-> l.kids]
      [] p.op = "sepBy" ->
             IF parserState.isError
             THEN [st |-> parserState, eff |-> eff, kids |-> <<>>]
             ELSE LET l == SepByLoop(p.separatorParser, p.valueParser,
                                     parserState, <<>>, eff, <<>>)
                  IN [st |-> SepByResult(l.nextState, l.thingWeWantState, l.results),
                      eff |-> l.eff, kids |-> l.kids]
      [] p.op = "sepByOne" ->
             IF parserState.isError
             THEN [st |-> parserState, eff |-> eff, kids |-> <<>>]
             ELSE LET l == SepByLoop(p.separatorParser, p.valueParser,
                                     parserState, <<>>, eff, <<>>)
                  IN [st |-> SepByOneResult(parserState, l.nextState,
                                            l.thingWeWantState, l.results),
                      eff |-> l.eff, kids |-> l.kids]
      [] p.op = "map" ->
             LET r == Apply(p.parser, parserState, eff)
             IN [st |-> MapResult(p.fn, r.st), eff |-> r.eff,
                 kids |-> <<Kid("parser", p.parser, parserState, r.st)>>]
      [] p.op = "errorMap" ->
             LET r == Apply(p.parser, parserState, eff)
             IN [st |-> ErrorMapResult(p.fn, r.st), eff |-> r.eff,
                 kids |-> <<Kid("parser", p.parser, parserState, r.st)>>]
      [] p.op = "chain" ->
             LET r == Apply(p.parser, parserState, eff)
                 k1 == <<Kid("parser", p.parser, parserState, r.st)>>
                 nextParser == ChainFn(p.fn, r.st)
                 n == Apply(nextParser, r.st, r.eff)
             IN IF ~ChainContinues(r.st)
                THEN [st |-> r.st, eff |-> r.eff, kids |-> k1]
                ELSE [st |-> n.st, eff |-> n.eff,
                      kids |-> k1 \o <<Kid("fn", p.fn, r.st, r.st),
                                       Kid("nextParser", nextParser, r.st, n.st)>>
                               \o n.kids]

\* one application of a transform function, appended to the history when it
\* returns
Apply(p, parserState, eff) ==
    LET r == Transform(p, parserState, eff)
    IN [st |-> r.st,
        eff |-> [r.eff EXCEPT !.log = Append(@, [p |-> p, in |-> parserState,
                                                out |-> r.st, kids |-> r.kids])],
        kids |-> r.kids]

\* Parser.run(target), started with the registry sugg
run(p, target, sugg) == Apply(p, initialState(target), Effects(sugg))

\* ------------------------------------------------------------ state machine

NoParser == [op |-> "none"]

\* the process after the module is loaded: an empty registry, no parser
\* built, nothing run
Init ==
    /\ suggestions = NoSuggestions
    /\ parser = NoParser
    /\ out = Null
    /\ hist = <<>>
    /\ fails = 0
    /\ runs = 0

\* a client builds the parser p
Construct(p, max) ==
    /\ runs < max
    /\ parser' = p
    /\ UNCHANGED <<suggestions, out, hist, fails, runs>>

\* parser.run(target): out is the state returned, hist the applications of
\* the run, fails the number of matchers that failed in it
Run(target, max) ==
    /\ parser # NoParser
    /\ runs < max
    /\ LET r == run(parser, target, suggestions)
       IN /\ suggestions' = r.eff.sugg
          /\ out' = r.st
          /\ hist' = r.eff.log
          /\ fails' = r.eff.fails
    /\ runs' = runs + 1
    /\ UNCHANGED parser

\* ------------------------------------------------------------------ inputs

Targets == SeqsUpTo(Alphabet, MaxLen)

LitA == <<"a">>
LitComma == <<",">>
CommaRegex == LiteralRegex(LitComma, FALSE, FALSE, FALSE)

\* states a client hands to setCurState: a success that moves the offset
\* back to 0, and an error holding a result
SuppliedState == [initialState(<<"a", "1">>) EXCEPT !.result = Str(<<"1">>)]
SuppliedError ==
    updateParserError(
        [initialState(<<"1">>) EXCEPT !.result = Str(LitA), !.index = 1],
        Msg("client", "", <<>>, -1, <<>>))

\* the matchers: each consumes at least one character when it succeeds
Matchers ==
    {str(LitA), str(LitComma), letters, digits, caseStr(LitA), strictStr(LitA),
     strictCaseStr(LitA)}

\* generator functions of contextual
Generators ==
    {Generator(<<>>, <<>>),
     Generator(<<letters>>, <<>>),
     Generator(<<letters, digits>>, <<>>),
     Generator(<<str(LitA), digits, str(LitComma)>>, <<>>),
     Generator(<<choice(<<str(LitA), str(LitComma)>>), digits>>, <<str(LitComma)>>)}

\* parsers built from the matchers by one combinator
Combined ==
    {many(letters), many(str(LitA)), many(choice(<<str(LitA), digits>>)),
     manyOne(digits), manyOne(caseStr(LitA)),
     sepBy(str(LitComma), digits), sepBy(str(LitComma), letters),
     sepByOne(str(LitComma), digits),
     between(str(LitA), str(LitA), digits),
     between(str(LitA), str(LitComma), many(digits)),
     sequenceSepBy(str(LitComma), <<digits, letters>>),
     sequenceSepBy(str(LitComma), <<letters>>),
     sequenceOf(<<>>), sequenceOf(<<letters>>),
     sequenceOf(<<many(str(LitA)), many(digits)>>),
     sequenceOf(<<str(LitA), digits, str(LitComma)>>),
     sequenceOf(<<letters, eat(CommaRegex), str(LitA)>>),
     choice(<<>>), choice(<<str(LitA), digits>>),
     oneOrZero(digits), lazy(letters), lazy(many(digits)),
     map(letters, "wrap"), errorMap(digits, "expected digits"),
     errorMap(sequenceOf(<<letters, digits>>), "expected a1"),
     chain(letters, [f |-> "const", q |-> digits]),
     chain(peek, [f |-> "const", q |-> letters])}
    \cup {contextual(g) : g \in Generators}

\* parsers that may succeed without consuming
Others ==
    {eat(CommaRegex), peek, getCurState, succeed(Str(LitA)),
     setCurState(SuppliedState), setCurState(SuppliedError)}

\* a first parser that fails on some inputs, then any parser
Pairs ==
    {sequenceOf(<<p, q>>) :
        p \in {str(LitA), digits, setCurState(SuppliedError)},
        q \in Matchers \cup Combined \cup Others}

\* alternatives that fail after matching tokens of different lengths
Alternatives ==
    {str(LitA), digits, manyOne(str(LitComma)),
     sequenceOf(<<str(LitA), str(<<"A">>)>>),
     sequenceOf(<<str(LitA), eat(CommaRegex), str(<<"A">>)>>),
     sequenceOf(<<str(LitA), str(LitA), str(LitComma)>>),
     sequenceOf(<<letters, digits, str(LitA)>>),
     sequenceOf(<<eat(CommaRegex), str(LitComma), str(LitComma)>>)}

Choices ==
    {choice(<<p, q>>) : p \in Alternatives, q \in Alternatives}
    \cup {choice(<<str(LitA), sequenceOf(<<letters, digits, str(LitA)>>),
                   sequenceOf(<<letters, digits, str(LitComma)>>)>>)}
    \cup {sequenceOf(<<letters, choice(<<p, q>>)>>) :
            p \in {str(LitA), digits}, q \in {str(LitComma), sequenceOf(<<digits, str(LitA)>>)}}

Parsers == Matchers \cup Others \cup Combined \cup Pairs \cup Choices

\* --------------------------------------------------------- specifications

\* one parser is built and run once on any input text
Next ==
    \/ \E p \in Parsers : Construct(p, 1)
    \/ \E target \in Targets : Run(target, 1)

Spec == Init /\ [][Next]_vars

\* separated lists over digits and commas
SepTargets == SeqsUpTo(SepAlphabet, SepMaxLen)

SepParsers ==
    {sepBy(str(LitComma), digits),
     sepBy(str(LitComma), str(<<"1">>)),
     sepBy(digits, str(LitComma)),
     sequenceOf(<<str(LitComma), sepBy(str(LitComma), digits)>>)}

NextSep ==
    \/ \E p \in SepParsers : Construct(p, 1)
    \/ \E target \in SepTargets : Run(target, 1)

SpecSep == Init /\ [][NextSep]_vars

\* parsers are built and run again and again in one process
RegTargets == {<<>>, <<"a">>, <<"1">>, <<"a", "1">>}

RegParsers ==
    {str(LitA), digits,
     errorMap(sequenceOf(<<letters, digits>>), "expected a1"),
     choice(<<str(LitA), caseStr(<<"1">>)>>),
     map(many(str(LitA)), "wrap"),
     chain(letters, [f |-> "const", q |-> digits])}

NextReg ==
    \/ \E p \in RegParsers : Construct(p, MaxRuns)
    \/ \E target \in RegTargets : Run(target, MaxRuns)

SpecReg == Init /\ [][NextReg]_vars

\* ------------------------------------------------------------------ claims

\* the applications of the last run made by a parser built by op, from a
\* state that is not an error
Applied(op) ==
    {i \in DOMAIN hist : hist[i].p.op = op /\ ~hist[i].in.isError}

Last(q) == q[Len(q)]

\* the sub-parsers were applied one after the other, each to the state the
\* previous one returned
Threaded(e) ==
    /\ e.kids # <<>> => e.kids[1].in = e.in
    /\ \A k \in 1..(Len(e.kids) - 1) : e.kids[k + 1].in = e.kids[k].out

\* C1 (as claimed): sequenceOf(ps) returns a non-error state if and only if
\* every parser of ps, applied in order to the state the previous one left,
\* returns a non-error state; then result is the list of their results and
\* index is the index the last one left.
C1_SequenceOfSucceedsIffAll ==
    \A i \in Applied("sequenceOf") :
        LET e == hist[i]
        IN /\ (~e.out.isError) <=>
                  (/\ Len(e.kids) = Len(e.p.parsers)
                   /\ Threaded(e)
                   /\ \A k \in DOMAIN e.kids :
                          /\ e.kids[k].p = e.p.parsers[k]
                          /\ ~e.kids[k].out.isError)
           /\ ~e.out.isError =>
                  /\ e.out.result =
                         List([k \in DOMAIN e.kids |-> e.kids[k].out.result])
                  /\ e.out.index =
                         IF e.kids = <<>> THEN e.in.index
                         ELSE Last(e.kids).out.index

\* C10 (as claimed): once a parser of sequenceOf(ps) returns an error state,
\* no later parser of ps is applied and sequenceOf returns exactly that
\* error state.
C10_SequenceOfStopsAtFirstError ==
    \A i \in Applied("sequenceOf") :
        LET e == hist[i]
        IN \A k \in DOMAIN e.kids :
               e.kids[k].out.isError =>
                   /\ Len(e.kids) = k
                   /\ e.out = e.kids[k].out

\* the primitives and combinators that the claim lists as passing an error
\* state through (between is a map, contextual a chain)
PassThroughOps ==
    {"str", "regex", "eat", "peek", "getCurState", "succeed", "sequenceOf",
     "sequenceSepBy", "sepBy", "sepByOne", "manyOne", "lazy", "map", "chain"}

\* C6 (as claimed): a non-recovering primitive or combinator applied to an
\* error state returns that state, equal in every field.
C6_ErrorStatePassesThrough ==
    \A i \in DOMAIN hist :
        (hist[i].in.isError /\ hist[i].p.op \in PassThroughOps) =>
            hist[i].out = hist[i].in

\* C7 (as claimed): a successful pattern or literal match from index i is
\* anchored at i: the new index is i plus the length of the result, the
\* result is the text of target between i and the new index, and target is
\* unchanged.
C7_MatchIsAnchored ==
    \A i \in Applied("regex") \cup Applied("str") :
        LET e == hist[i]
        IN ~e.out.isError =>
               /\ e.out.target = e.in.target
               /\ e.out.result.t = "string"
               /\ e.out.index = e.in.index + Len(e.out.result.s)
               /\ e.out.result.s =
                      SubSeq(e.in.target, e.in.index + 1, e.out.index)

\* C3: many(p) applied to a non-error state returns a non-error state whose
\* result is the list of the results of the consecutive successful
\* applications of p and whose index is the index after the last of them;
\* the empty list and the starting index when the first application fails.
C3_ManyCollectsSuccesses ==
    \A i \in Applied("many") :
        LET e == hist[i]
            n == Len(e.kids)
        IN /\ n >= 1
           /\ Threaded(e)
           /\ \A k \in 1..n : e.kids[k].p = e.p.parser
           /\ \A k \in 1..(n - 1) : ~e.kids[k].out.isError
           /\ e.kids[n].out.isError
           /\ ~e.out.isError
           /\ e.out.result = List([k \in 1..(n - 1) |-> e.kids[k].out.result])
           /\ e.out.index =
                  IF n = 1 THEN e.in.index ELSE e.kids[n - 1].out.index

\* a many that collected two results, and one in the same run that
\* collected none
C3_Witness ==
    /\ \E i \in Applied("many") :
           /\ Len(hist[i].out.result.l) >= 2
           /\ hist[i].out.index > hist[i].in.index
    /\ \E j \in Applied("many") : hist[j].out.result = List(<<>>)

\* every alternative of the choice application e was applied and failed
AllFailed(e) ==
    /\ Len(e.kids) = Len(e.p.parsers)
    /\ \A k \in DOMAIN e.kids : e.kids[k].out.isError

\* among the alternatives K of e, the earliest one with the largest
\* lastMatchedTokenIndex
Furthest(e, K) ==
    CHOOSE k \in K :
        \A j \in K :
            \/ e.kids[k].out.lastMatchedTokenIndex > e.kids[j].out.lastMatchedTokenIndex
            \/ /\ e.kids[k].out.lastMatchedTokenIndex = e.kids[j].out.lastMatchedTokenIndex
               /\ k <= j

\* every alternative was applied to the starting state, and the first one
\* that succeeded, if any, ended the choice and gave the returned state
ChoiceFirstSuccess(e) ==
    /\ \A k \in DOMAIN e.kids :
           /\ e.kids[k].in = e.in
           /\ e.kids[k].p = e.p.parsers[k]
           /\ ~e.kids[k].out.isError => (Len(e.kids) = k /\ e.out = e.kids[k].out)
    /\ Len(e.kids) < Len(e.p.parsers) =>
           (e.kids # <<>> /\ ~Last(e.kids).out.isError)

\* C2 (as claimed): choice applies every alternative to the same state and
\* returns the state of the first that succeeds; when all fail it returns an
\* error at the starting index whose lastMatchedToken and
\* lastMatchedTokenIndex are those of the failed alternative with the
\* largest lastMatchedTokenIndex, the earliest one on a tie.
C2_ChoiceFurthestOfAll ==
    \A i \in Applied("choice") :
        LET e == hist[i]
        IN /\ ChoiceFirstSuccess(e)
           /\ AllFailed(e) =>
                  /\ e.out.isError
                  /\ e.out.index = e.in.index
                  /\ e.kids # <<>> =>
                         LET f == Furthest(e, DOMAIN e.kids)
                         IN /\ e.out.lastMatchedToken =
                                   e.kids[f].out.lastMatchedToken
                            /\ e.out.lastMatchedTokenIndex =
                                   e.kids[f].out.lastMatchedTokenIndex

\* C5 (as claimed): a parser applied to a non-error state returns an index
\* that is not negative, not below the starting index on success, and equal
\* to the starting index on error.
C5_IndexUnchangedOnError ==
    \A i \in DOMAIN hist :
        LET e == hist[i]
        IN ~e.in.isError =>
               /\ e.out.index >= 0
               /\ ~e.out.isError => e.out.index >= e.in.index
               /\ e.out.isError => e.out.index = e.in.index

\* the primitives and combinators whose error state is at the starting index
FailsInPlaceOps == {"str", "regex", "choice", "manyOne", "sepByOne"}

\* C5 (amended): in a run that applies no setCurState, a parser applied to a
\* non-error state returns an index that is not negative and not below the
\* starting index, on success and on error; the index of an error returned
\* by str, a pattern matcher, choice, manyOne or sepByOne is the starting
\* index.
C5_IndexNeverDecreases ==
    (\A i \in DOMAIN hist : hist[i].p.op # "setCurState") =>
        \A i \in DOMAIN hist :
            LET e == hist[i]
            IN ~e.in.isError =>
                   /\ e.in.index >= 0
                   /\ e.out.index >= e.in.index
                   /\ (e.out.isError /\ e.p.op \in FailsInPlaceOps) =>
                          e.out.index = e.in.index

\* a sequenceOf that failed after its first parser consumed input, in a run
\* without setCurState
C5_Witness ==
    /\ \A i \in DOMAIN hist : hist[i].p.op # "setCurState"
    /\ \E i \in Applied("sequenceOf") :
           /\ hist[i].out.isError
           /\ hist[i].out.index > hist[i].in.index
    /\ \E i \in Applied("str") :
           hist[i].out.isError /\ hist[i].in.index > 0

\* the applications of contextual(g): chain(succeed(null), ...) with the
\* function that starts the generator
AppliedContextual ==
    {i \in Applied("chain") : hist[i].p.fn.f = "contextual"}

\* the applications of the parsers the generator yielded, in order (the
\* first "parser" application of contextual is its own succeed(null))
Yielded(e) == Tail(SelectSeq(e.kids, LAMBDA k : k.role = "parser"))

\* the states returned by the first n yielded parsers
Received(e, n) == [k \in 1..n |-> Yielded(e)[k].out]

\* C9: contextual(g) applied to a non-error state runs the parsers g yields
\* one at a time in yield order, each from the state the previous one left;
\* g is resumed, with the resulting state, only after the yielded parser
\* succeeded; the first yielded parser that fails ends the run and its error
\* state is the outcome; when all succeed the outcome is a success whose
\* result is g's return value and whose index is the one the last yielded
\* parser left.
C9_ContextualRunsYieldsInOrder ==
    \A i \in AppliedContextual :
        LET e == hist[i]
            gen == e.p.fn.gen
            Y == Yielded(e)
        IN /\ e.kids[1].role = "parser"
           /\ e.kids[1].in = e.in
           /\ \A j \in DOMAIN e.kids :
                  e.kids[j].role = "fn" =>
                      /\ j > 1
                      /\ e.kids[j - 1].role = "parser"
                      /\ ~e.kids[j - 1].out.isError
                      /\ e.kids[j].in = e.kids[j - 1].out
           /\ Len(Y) <= Len(gen.yields)
           /\ \A k \in DOMAIN Y :
                  /\ Y[k].p = GenYield(gen, k, Received(e, k - 1))
                  /\ Y[k].in = IF k = 1 THEN e.kids[1].out ELSE Y[k - 1].out
                  /\ Y[k].out.isError =>
                         /\ k = Len(Y)
                         /\ Last(e.kids) = Y[k]
                         /\ e.out = Y[k].out
           /\ (\A k \in DOMAIN Y : ~Y[k].out.isError) =>
                  /\ Len(Y) = Len(gen.yields)
                  /\ ~e.out.isError
                  /\ e.out.result = GenReturn(gen, Received(e, Len(Y)))
                  /\ e.out.index =
                         IF Y = <<>> THEN e.in.index ELSE Last(Y).out.index

\* a contextual whose generator yielded two parsers that both succeeded, the
\* second one chosen from the state the first one left
C9_Witness ==
    \E i \in AppliedContextual :
        LET e == hist[i]
        IN /\ Len(Yielded(e)) >= 2
           /\ Yielded(e)[2].p # e.p.fn.gen.yields[2]
           /\ ~e.out.isError
           /\ e.out.index > e.in.index

\* C4: sepBy(sep)(v) applied to a non-error state alternates v, sep, v, ...
\* until the first failure of either, and returns a non-error state whose
\* result is the list of the values v matched: the empty list when the first
\* v fails, and ["1","2","3"] for digits separated by "," on "1,2,3".
C4_SepByCollectsValues ==
    \A i \in Applied("sepBy") :
        LET e == hist[i]
            n == Len(e.kids)
            V == SelectSeq(SubSeq(e.kids, 1, n - 1), LAMBDA k : k.role = "value")
        IN /\ n >= 1
           /\ Threaded(e)
           /\ \A k \in 1..n :
                  IF k % 2 = 1
                  THEN e.kids[k].role = "value" /\ e.kids[k].p = e.p.valueParser
                  ELSE /\ e.kids[k].role = "separator"
                       /\ e.kids[k].p = e.p.separatorParser
           /\ \A k \in 1..(n - 1) : ~e.kids[k].out.isError
           /\ e.kids[n].out.isError
           /\ ~e.out.isError
           /\ e.out.result = List([k \in DOMAIN V |-> V[k].out.result])
           /\ e.kids[1].out.isError => e.out.result = List(<<>>)
           /\ (e.p = sepBy(str(LitComma), digits) /\ e.in.index = 0) =>
                  /\ e.in.target = <<"1", ",", "2", ",", "3">> =>
                         e.out.result =
                             List(<<Str(<<"1">>), Str(<<"2">>), Str(<<"3">>)>>)
                  /\ e.in.target = <<>> => e.out.result = List(<<>>)

\* digits separated by "," run on "1,2,3"
C4_Witness ==
    /\ parser = sepBy(str(LitComma), digits)
    /\ out # Null
    /\ out.target = <<"1", ",", "2", ",", "3">>
    /\ out.result = List(<<Str(<<"1">>), Str(<<"2">>), Str(<<"3">>)>>)

\* C8: the suggestion registry only grows: no key and no pattern under a
\* key is ever removed; building a parser never changes it; it changes only
\* in a run in which a pattern or literal matcher failed.
C8_RegistryOnlyGrows ==
    [][/\ \A k \in DOMAIN suggestions :
              k \in DOMAIN suggestions' /\ suggestions[k] \subseteq suggestions'[k]
       /\ runs' = runs => suggestions' = suggestions
       /\ suggestions' # suggestions => (runs' = runs + 1 /\ fails' > 0)]_vars

\* after two runs the registry holds two patterns under one key and a second
\* key
C8_Witness ==
    /\ runs = 2
    /\ \E k \in DOMAIN suggestions : Cardinality(suggestions[k]) >= 2
    /\ Cardinality(DOMAIN suggestions) >= 2
====
